---- MODULE Spec2Model ----
(***************************************************************************)
(* Model of the WebGL convolution operator (lib/backends/webgl/ops/conv.ts) *)
(* and of the Flatten operator's input validation (lib/ops/flatten.ts).     *)
(*                                                                         *)
(* Sequences are 1-based here and 0-based in the source: dims[i] of the     *)
(* source is dims[i+1] of the model.                                        *)
(***************************************************************************)
EXTENDS Integers, Sequences, FiniteSets

VARIABLES
  call,         \* a call of a static or pure function: its name and arguments
  ret,          \* the result of that call
  pc,           \* where WebGLConv.run stands ("idle" between calls)
  runNo,        \* how many calls of run were made on the instance
  conv,         \* the operator's attributes and the shapes it is run with
  runInputs,    \* the inputs of the current call of run
  kernelLog,    \* the kernel tensor passed to each call of run so far
  artifacts,    \* this.artifacts: unset, or the list of built artifacts
  loc,          \* locals of run: programInfos, the build index i, the draw offset k
  textureCache, \* the handler's texture data, keyed by tensor identity
  gl,           \* the GL context: blend state and the sharedDimOffset uniform
  target,       \* one element of the output texture of the dot-product pass
  tex,          \* contents of the im2col row, the kernel row and the bias
  glLog,        \* GL calls made by the current call of run, in order
  buildLog,     \* calls of programManager.build, with the run that made them
  prepLog,      \* calls of prepKernelForDotProduct, with run and tensor
  uploadLog,    \* kernel texture uploads, with run and tensor
  setLog,       \* calls of setTextureData for the kernel, with run and tensor
  pending,      \* an error raised inside a pass and not yet propagated
  outcome,      \* how the last call of run ended
  foreign,      \* blend state seen by the last draw of another operator
  getOrCreated  \* tensors whose texture data getOrCreate put in the cache

pureVars == <<call, ret>>

runVars == <<pc, runNo, conv, runInputs, kernelLog, artifacts, loc, textureCache, gl, target, tex,
             glLog, buildLog, prepLog, uploadLog, setLog, pending, outcome, foreign,
             getOrCreated>>

vars == <<call, ret, pc, runNo, conv, runInputs, kernelLog, artifacts, loc, textureCache, gl, target,
          tex, glLog, buildLog, prepLog, uploadLog, setLog, pending, outcome, foreign,
          getOrCreated>>

\* ------------------------------------------------------------------ bounds
MaxExtent == 3
MaxKernel == 2
MaxDilation == 2
MaxPad == 1
MaxStride == 3

\* ----------------------------------------------------------------- helpers
CeilDiv(a, b) == (a + b - 1) \div b

NoRet == [done |-> FALSE]

NoCall == [op |-> "none"]

NoConv == [biasTensors |-> {}]

NoInputs == [x |-> "none", k |-> "none", b |-> "none"]

NoLocals == [programInfos |-> <<>>, i |-> 0, k |-> 0]

\* No instance of the operator is running: the state of the run variables
\* while a static function is exercised on its own.
NoRun ==
  /\ pc = "off"
  /\ runNo = 0
  /\ conv = NoConv
  /\ runInputs = NoInputs
  /\ kernelLog = <<>>
  /\ artifacts = [defined |-> FALSE, list |-> <<>>]
  /\ loc = NoLocals
  /\ textureCache = {}
  /\ gl = [blend |-> FALSE, sharedDimOffset |-> 0]
  /\ target = 0
  /\ tex = [im2col |-> 0, kernel |-> 0, bias |-> 0]
  /\ glLog = <<>>
  /\ buildLog = <<>>
  /\ prepLog = <<>>
  /\ uploadLog = <<>>
  /\ setLog = <<>>
  /\ pending = FALSE
  /\ outcome = "none"
  /\ foreign = "none"
  /\ getOrCreated = {}

\* ------------------------------------------------------- calcOutputShape
\* calcOutputShape without the stride added before the division.
CalcOutputShapeNoStrideTerm(inputShape, kernelShape, dilations, adjustPads, strides) ==
  LET spatialRank == Len(inputShape) - 2
  IN  <<inputShape[1], kernelShape[1]>> \o
      [i \in 1..spatialRank |->
         ((inputShape[i + 2] + adjustPads[i] + adjustPads[i + spatialRank])
            - (kernelShape[i + 2] + (kernelShape[i + 2] - 1) * (dilations[i] - 1)))
           \div strides[i]]

CalcOutputShape(inputShape, kernelShape, dilations, adjustPads, strides) ==
  LET batchSize == inputShape[1]
      inputSpatialShape == SubSeq(inputShape, 3, Len(inputShape))
      spatialRank == Len(inputSpatialShape)
      outChannels == kernelShape[1]
      kernelSpatialShape == SubSeq(kernelShape, 3, Len(kernelShape))
      dilatedKernelShape ==
        [i \in 1..Len(kernelSpatialShape) |->
           kernelSpatialShape[i] + (kernelSpatialShape[i] - 1) * (dilations[i] - 1)]
      inputSpatialShapeWithPad ==
        [i \in 1..spatialRank |->
           inputSpatialShape[i] + adjustPads[i] + adjustPads[i + spatialRank]]
      outputSpatialShape ==
        [i \in 1..spatialRank |->
           (inputSpatialShapeWithPad[i] - dilatedKernelShape[i] + strides[i])
             \div strides[i]]
  IN  <<batchSize, outChannels>> \o outputSpatialShape

\* One spatial axis of a convolution: extent, kernel, dilation, pads, stride.
AxisConfigs ==
  [s : 1..MaxExtent, k : 1..MaxKernel, d : 1..MaxDilation,
   pb : 0..MaxPad, pe : 0..MaxPad, t : 1..MaxStride]

\* A second axis, unlike the first in every field.
SecondAxisConfigs ==
  { [s |-> 5, k |-> 3, d |-> 2, pb |-> 2, pe |-> 0, t |-> 2],
    [s |-> 4, k |-> 2, d |-> 1, pb |-> 0, pe |-> 3, t |-> 3],
    [s |-> 7, k |-> 1, d |-> 3, pb |-> 1, pe |-> 1, t |-> 4] }

AxisLists ==
  { <<a>> : a \in AxisConfigs } \cup
  { <<a, b>> : a \in AxisConfigs, b \in SecondAxisConfigs }

ShapeCallOf(n, c, f, axes) ==
  [op |-> "calcOutputShape",
   inputShape  |-> <<n, c>> \o [i \in 1..Len(axes) |-> axes[i].s],
   kernelShape |-> <<f, c>> \o [i \in 1..Len(axes) |-> axes[i].k],
   dilations   |-> [i \in 1..Len(axes) |-> axes[i].d],
   pads        |-> [i \in 1..Len(axes) |-> axes[i].pb] \o
                   [i \in 1..Len(axes) |-> axes[i].pe],
   strides     |-> [i \in 1..Len(axes) |-> axes[i].t]]

InitShape ==
  /\ call \in { ShapeCallOf(nf[1], 2, nf[2], axes) :
                  nf \in {<<1, 1>>, <<2, 3>>}, axes \in AxisLists }
  /\ ret = NoRet
  /\ NoRun

DoCalcOutputShape ==
  /\ call.op = "calcOutputShape"
  /\ ~ret.done
  /\ ret' = [done |-> TRUE,
             value |-> CalcOutputShape(call.inputShape, call.kernelShape,
                                       call.dilations, call.pads, call.strides)]
  /\ UNCHANGED call
  /\ UNCHANGED runVars

NextShape == DoCalcOutputShape

SpecShape == InitShape /\ [][NextShape]_vars

\* ----- C6
SpatialRankOf(c) == Len(c.inputShape) - 2

PaddedExtent(c, i) == c.inputShape[i + 2] + c.pads[i] + c.pads[i + SpatialRankOf(c)]

DilatedExtent(c, i) ==
  c.kernelShape[i + 2] + (c.kernelShape[i + 2] - 1) * (c.dilations[i] - 1)

\* Start positions of the dilated kernel sliding over the padded input.
WindowPositions(padded, dilated, stride) ==
  { p \in 0..padded : p % stride = 0 /\ p + dilated <= padded }

ValidShapeCall(c) ==
  \A i \in 1..SpatialRankOf(c) : PaddedExtent(c, i) >= DilatedExtent(c, i)

\* C6: for valid inputs calcOutputShape returns [batch, outChannels] followed
\* per spatial axis by floor((S + Pb + Pe - (K + (K-1)(D-1)) + T) / T), and
\* that number is the count of sliding-window positions on that axis.
C6_OutputShapeFormula ==
  (call.op = "calcOutputShape" /\ ret.done /\ ValidShapeCall(call)) =>
     /\ Len(ret.value) = Len(call.inputShape)
     /\ ret.value[1] = call.inputShape[1]
     /\ ret.value[2] = call.kernelShape[1]
     /\ \A i \in 1..SpatialRankOf(call) :
          /\ ret.value[i + 2] =
               (PaddedExtent(call, i) - DilatedExtent(call, i) + call.strides[i])
                 \div call.strides[i]
          /\ ret.value[i + 2] =
               Cardinality(WindowPositions(PaddedExtent(call, i),
                                           DilatedExtent(call, i), call.strides[i]))

C6_Witness ==
  /\ call.op = "calcOutputShape" /\ ret.done /\ ValidShapeCall(call)
  /\ SpatialRankOf(call) = 2
  /\ call.strides[1] = 2 /\ call.dilations[1] = 2 /\ call.kernelShape[3] = 2
  /\ call.pads[1] = 1 /\ call.pads[3] = 0
  /\ (PaddedExtent(call, 1) - DilatedExtent(call, 1)) % 2 = 1
  /\ ret.value[3] = 1

\* ------------------------------------------------- Flatten.checkInputs
MaxRank == 3
MaxInputs == 2

TensorTypes == {"float32", "int32", "string"}

Tensors == { [dims |-> [i \in 1..r |-> 2], type |-> t] : r \in 0..MaxRank, t \in TensorTypes }

SeqsUpTo(S, n) == UNION { [1..m -> S] : m \in 0..n }

\* An input list: absent (undefined), or a list of tensors.
InputLists ==
  { [present |-> FALSE, list |-> <<>>] } \cup
  { [present |-> TRUE, list |-> l] : l \in SeqsUpTo(Tensors, MaxInputs) }

CheckInputTypes(inputs) ==
  IF inputs.list[1].type = "string" THEN "false" ELSE "true"

\* The outcome is "true" or "false": on a list of tensors no statement of
\* checkInputs or checkInputTypes throws.
\* checkInputs rejecting axis = rank.
CheckInputsAxisExclusive(axis, inputs) ==
  IF ~inputs.present \/ Len(inputs.list) # 1 THEN "false"
  ELSE IF Len(inputs.list[1].dims) = 0 THEN "false"
  ELSE IF axis < 0 \/ axis >= Len(inputs.list[1].dims) THEN "false"
  ELSE CheckInputTypes(inputs)

CheckInputs(axis, inputs) ==
  IF ~inputs.present \/ Len(inputs.list) # 1 THEN "false"
  ELSE IF Len(inputs.list[1].dims) = 0 THEN "false"
  ELSE IF axis < 0 \/ axis > Len(inputs.list[1].dims) THEN "false"
  ELSE CheckInputTypes(inputs)

InitFlatten ==
  /\ call \in [op : {"checkInputs"}, axis : -1..(MaxRank + 1), inputs : InputLists]
  /\ ret = NoRet
  /\ NoRun

DoCheckInputs ==
  /\ call.op = "checkInputs"
  /\ ~ret.done
  /\ ret' = [done |-> TRUE, value |-> CheckInputs(call.axis, call.inputs)]
  /\ UNCHANGED call
  /\ UNCHANGED runVars

NextFlatten == DoCheckInputs

SpecFlatten == InitFlatten /\ [][NextFlatten]_vars

\* ----- C9
FlattenAccepts(axis, inputs) ==
  /\ inputs.present
  /\ Len(inputs.list) = 1
  /\ Len(inputs.list[1].dims) >= 1
  /\ 0 <= axis /\ axis <= Len(inputs.list[1].dims)
  /\ inputs.list[1].type # "string"

\* C9: checkInputs never raises; it returns false for an absent list, an
\* arity other than one, a rank-0 tensor, an axis outside [0, rank] or a
\* string tensor, and true for every other single tensor (axis = rank included).
C9_CheckInputsTotal ==
  (call.op = "checkInputs" /\ ret.done) =>
     /\ ret.value \in {"true", "false"}
     /\ (ret.value = "true") <=> FlattenAccepts(call.axis, call.inputs)

C9_Witness ==
  /\ call.op = "checkInputs" /\ ret.done
  /\ call.inputs.present /\ Len(call.inputs.list) = 1
  /\ call.axis = Len(call.inputs.list[1].dims) /\ call.axis = MaxRank
  /\ ret.value = "true"

C9_WitnessReject ==
  /\ call.op = "checkInputs" /\ ret.done
  /\ call.inputs.present /\ Len(call.inputs.list) = 1
  /\ call.inputs.list[1].type = "string" /\ call.axis = 1
  /\ Len(call.inputs.list[1].dims) = 2
  /\ ret.value = "false"

\* ------------------------------------------- prepKernelForDotProduct
MaxFilters == 2
MaxInChannels == 2

Min(a, b) == IF a < b THEN a ELSE b

\* new Float32Array(n)
ZeroArray(n) == [i \in 1..n |-> 0]

\* TypedArray.prototype.slice(begin, end), both clamped to the length.
ArraySlice(a, begin, end) == SubSeq(a, Min(begin, Len(a)) + 1, Min(end, Len(a)))

\* TypedArray.prototype.set(src, offset)
ArraySet(a, src, offset) ==
  [i \in 1..Len(a) |->
     IF i > offset /\ i <= offset + Len(src) THEN src[i - offset] ELSE a[i]]

\* ShapeUtil.computeStrides: row-major strides of a shape.
RECURSIVE ProductFrom(_, _)
ProductFrom(shape, i) ==
  IF i > Len(shape) THEN 1 ELSE shape[i] * ProductFrom(shape, i + 1)

ComputeStrides(shape) == [i \in 1..Len(shape) |-> ProductFrom(shape, i + 1)]

\* The loop writing each row at its old offset, so that rows are not padded.
RECURSIVE PrepKernelLoopOldOffsets(_, _, _, _, _, _, _, _)
PrepKernelLoopOldOffsets(f, numFilters, strides, oldRowSize, newRowSize, kernel, rowbuf, buffer) ==
  IF f >= numFilters THEN buffer
  ELSE LET oldOffset == f * strides[1]
           rowbuf2 == ArraySet(rowbuf, ArraySlice(kernel, oldOffset, oldOffset + oldRowSize), 0)
       IN  PrepKernelLoopOldOffsets(f + 1, numFilters, strides, oldRowSize, newRowSize,
                                    kernel, rowbuf2, ArraySet(buffer, rowbuf2, oldOffset))

\* The loop over the filters; rowbuf is one array reused by every iteration.
RECURSIVE PrepKernelLoop(_, _, _, _, _, _, _, _)
PrepKernelLoop(f, numFilters, strides, oldRowSize, newRowSize, kernel, rowbuf, buffer) ==
  IF f >= numFilters THEN buffer
  ELSE LET oldOffset == f * strides[1]
           rowbuf2 == ArraySet(rowbuf, ArraySlice(kernel, oldOffset, oldOffset + oldRowSize), 0)
           newOffset == f * newRowSize
       IN  PrepKernelLoop(f + 1, numFilters, strides, oldRowSize, newRowSize,
                          kernel, rowbuf2, ArraySet(buffer, rowbuf2, newOffset))

\* The result names the array returned ("kernel": the argument itself,
\* "buffer": an array allocated by the call), the contents of the returned
\* array and the contents of the argument after the call.
PrepKernelForDotProduct(shape, group, channels, kernel) ==
  IF group = 1 /\ (channels = 1 \/ (shape[3] * shape[4]) % channels = 0)
  THEN [ref |-> "kernel", data |-> kernel, kernel |-> kernel]
  ELSE LET strides == ComputeStrides(shape)
           oldRowSize == shape[2] * shape[3] * shape[4]
           newRowSize == CeilDiv(oldRowSize, channels) * channels
           newSize == shape[1] * newRowSize
       IN  [ref |-> "buffer",
            data |-> PrepKernelLoop(0, shape[1], strides, oldRowSize, newRowSize,
                                    kernel, ZeroArray(newRowSize), ZeroArray(newSize)),
            kernel |-> kernel]

KernelShapes ==
  { <<f, c, kh, kw>> : f \in 1..MaxFilters, c \in 1..MaxInChannels,
                       kh \in 1..MaxKernel, kw \in 1..MaxKernel }

\* Kernel contents: all distinct and non-zero, or mixed with zeros and
\* negative values.
KernelData(shape, pattern) ==
  [i \in 1..ProductFrom(shape, 1) |->
     IF pattern = 1 THEN i ELSE ((i * 3) % 5) - 2]

InitPrep ==
  /\ call \in { [op |-> "prepKernelForDotProduct", shape |-> sh, group |-> g,
                 channels |-> ch, kernel |-> KernelData(sh, p)] :
                  sh \in KernelShapes, g \in {1, 2}, ch \in {1, 2, 4}, p \in {1, 2} }
  /\ ret = NoRet
  /\ NoRun

DoPrepKernel ==
  /\ call.op = "prepKernelForDotProduct"
  /\ ~ret.done
  /\ ret' = [done |-> TRUE,
             value |-> PrepKernelForDotProduct(call.shape, call.group,
                                               call.channels, call.kernel)]
  /\ UNCHANGED call
  /\ UNCHANGED runVars

NextPrep == DoPrepKernel

SpecPrep == InitPrep /\ [][NextPrep]_vars

\* ----- C7
PrepIsNoOp(c) ==
  c.group = 1 /\ (c.channels = 1 \/ (c.shape[3] * c.shape[4]) % c.channels = 0)

RowSizeOf(c) == c.shape[2] * c.shape[3] * c.shape[4]

\* ceil(rowSize / channels) * channels, as the least multiple of channels
\* that is >= rowSize
PaddedRowSizeOf(c) ==
  CHOOSE n \in 0..(RowSizeOf(c) + c.channels) :
    /\ n % c.channels = 0
    /\ n >= RowSizeOf(c)
    /\ n - c.channels < RowSizeOf(c)

\* C7: prepKernelForDotProduct returns its argument exactly when group = 1
\* and (channels = 1 or KH*KW is a multiple of channels); otherwise it
\* returns a new buffer of numFilters padded rows, each the filter's row
\* unshifted and followed by zeros; the argument is never modified.
C7_PrepKernel ==
  (call.op = "prepKernelForDotProduct" /\ ret.done) =>
     /\ (ret.value.ref = "kernel") <=> PrepIsNoOp(call)
     /\ ret.value.ref = "kernel" => ret.value.data = call.kernel
     /\ ret.value.kernel = call.kernel
     /\ ret.value.ref # "kernel" =>
          /\ ret.value.ref = "buffer"
          /\ Len(ret.value.data) = call.shape[1] * PaddedRowSizeOf(call)
          /\ \A f \in 0..(call.shape[1] - 1) : \A j \in 0..(PaddedRowSizeOf(call) - 1) :
               ret.value.data[f * PaddedRowSizeOf(call) + j + 1] =
                 IF j < RowSizeOf(call)
                 THEN call.kernel[f * RowSizeOf(call) + j + 1]
                 ELSE 0

C7_Witness ==
  /\ call.op = "prepKernelForDotProduct" /\ ret.done
  /\ call.group = 1 /\ call.channels = 4
  /\ call.shape[1] = 2 /\ RowSizeOf(call) = 2
  /\ ret.value.ref = "buffer"
  /\ ret.value.data = <<1, 2, 0, 0, 3, 4, 0, 0>>

C7_WitnessNoOp ==
  /\ call.op = "prepKernelForDotProduct" /\ ret.done
  /\ call.group = 1 /\ call.channels = 4 /\ call.shape = <<2, 2, 2, 2>>
  /\ ret.value.ref = "kernel"

\* ------------------------------------------------ calcIm2ColDims
CalcIm2ColDims(inputShape, kernelShape, outputShape, channels) ==
  << outputShape[1], outputShape[3], outputShape[4],
     CeilDiv(inputShape[2] * kernelShape[3] * kernelShape[4], channels) >>

\* ------------------------------------- im2col shader (process)
outputChannels == 4

\* The input texture X, by logical index [b, c, h, w] (0-based): every
\* element is non-zero.
XValue(xshape, x) ==
  1 + ((x[1] * xshape[2] + x[2]) * xshape[3] + x[3]) * xshape[4] + x[4]

InXBounds(xshape, x) == \A d \in 1..4 : 0 <= x[d] /\ x[d] < xshape[d]

\* What a read outside the texture's logical range yields.
OutOfRangeValue == 0 - 1

\* _X(x)
SampleX(xshape, x) == IF InXBounds(xshape, x) THEN XValue(xshape, x) ELSE OutOfRangeValue

\* The loop body without the upper bound on the row coordinate.
Im2ColChannelNoUpperBound(c, b, oh, ow, patch, i, acc) ==
  LET KHKW == c.kernelShape[1] * c.kernelShape[2]
      patchC == patch \div KHKW
      patchH == (patch - patchC * KHKW) \div c.kernelShape[2]
      patchW == (patch - patchC * KHKW) - patchH * c.kernelShape[2]
      xh2 == oh + patchH * c.dilations[1]
      xw2 == ow + patchW * c.dilations[2]
      x == <<b, patchC, xh2, xw2>>
  IN  IF patch < c.xshape[2] * KHKW /\ xh2 >= 0 /\ xw2 >= 0 /\ xw2 < c.xshape[4]
      THEN [v |-> [acc.v EXCEPT ![i + 1] = SampleX(c.xshape, x)],
            reads |-> acc.reads \cup {[channel |-> i, x |-> x]}]
      ELSE acc

\* The body of the loop over the four channels, for channel i; acc is the
\* vector v and the reads of X made so far.
Im2ColChannel(c, b, oh, ow, patch, i, acc) ==
  LET XC == c.xshape[2]
      XH == c.xshape[3]
      XW == c.xshape[4]
      KH == c.kernelShape[1]
      KW == c.kernelShape[2]
      KHKW == KH * KW
      XCKHKW == XC * KHKW
      patchC == patch \div KHKW
      patchH == (patch - patchC * KHKW) \div KW
      patchW == (patch - patchC * KHKW) - patchH * KW
      xh2 == oh + patchH * c.dilations[1]
      xw2 == ow + patchW * c.dilations[2]
      x == <<b, patchC, xh2, xw2>>
  IN  IF patch < XCKHKW /\ xh2 >= 0 /\ xh2 < XH /\ xw2 >= 0 /\ xw2 < XW
      THEN [v |-> [acc.v EXCEPT ![i + 1] = SampleX(c.xshape, x)],
            reads |-> acc.reads \cup {[channel |-> i, x |-> x]}]
      ELSE acc

RECURSIVE Im2ColLoop(_, _, _, _, _, _, _)
Im2ColLoop(c, b, oh, ow, patch, i, acc) ==
  IF i >= outputChannels THEN acc
  ELSE Im2ColLoop(c, b, oh, ow, patch + 1, i + 1,
                  Im2ColChannel(c, b, oh, ow, patch, i, acc))

\* vec4 process(int indices[4])
Im2ColProcess(c, indices) ==
  LET b == indices[1]
      oh == indices[2] * c.strides[1] - c.pads[1]
      ow == indices[3] * c.strides[2] - c.pads[2]
      patch == indices[4] * outputChannels
  IN  Im2ColLoop(c, b, oh, ow, patch, 0, [v |-> <<0, 0, 0, 0>>, reads |-> {}])

\* A 2-D convolution: one axis from AxisConfigs, the other from the samples.
ConvConfigOf(n, xc, f, ah, aw) ==
  [xshape |-> <<n, xc, ah.s, aw.s>>,
   kshape |-> <<f, xc, ah.k, aw.k>>,
   kernelShape |-> <<ah.k, aw.k>>,
   dilations |-> <<ah.d, aw.d>>,
   pads |-> <<ah.pb, aw.pb, ah.pe, aw.pe>>,
   strides |-> <<ah.t, aw.t>>]

Im2ColAxisSamples ==
  { [s |-> 2, k |-> 2, d |-> 1, pb |-> 1, pe |-> 1, t |-> 1],
    [s |-> 4, k |-> 3, d |-> 2, pb |-> 2, pe |-> 0, t |-> 2] }

\* The axes with the same padding at both ends.
Im2ColAxes == { a \in AxisConfigs : a.pe = a.pb }

ConvConfigs ==
  { ConvConfigOf(1, xc, 1, ah, aw) :
      xc \in 1..MaxInChannels, ah \in Im2ColAxes, aw \in Im2ColAxisSamples } \cup
  { ConvConfigOf(2, xc, 1, ah, aw) :
      xc \in 1..MaxInChannels, ah \in Im2ColAxisSamples, aw \in Im2ColAxes }

OutputShapeOf(c) == CalcOutputShape(c.xshape, c.kshape, c.dilations, c.pads, c.strides)

Im2ColDimsOf(c) == CalcIm2ColDims(c.xshape, c.kshape, OutputShapeOf(c), 4)

\* The indices the im2col program is run for: those of its output layout.
Im2ColIndices(c) ==
  LET dims == Im2ColDimsOf(c)
  IN  { <<b, oh, ow, t>> : b \in 0..(dims[1] - 1), oh \in 0..(dims[2] - 1),
                           ow \in 0..(dims[3] - 1), t \in 0..(dims[4] - 1) }

InitIm2Col ==
  /\ \E c \in ConvConfigs : \E ix \in Im2ColIndices(c) :
       call = [op |-> "im2col", conv |-> c, indices |-> ix]
  /\ ret = NoRet
  /\ NoRun

DoIm2ColProcess ==
  /\ call.op = "im2col"
  /\ ~ret.done
  /\ ret' = [done |-> TRUE, value |-> Im2ColProcess(call.conv, call.indices)]
  /\ UNCHANGED call
  /\ UNCHANGED runVars

NextIm2Col == DoIm2ColProcess

SpecIm2Col == InitIm2Col /\ [][NextIm2Col]_vars

\* ----- C8
\* The decompositions patch = c*KH*KW + kh*KW + kw within the kernel's ranges.
PatchDecompositions(c, patch) ==
  { d \in (0..(c.xshape[2] - 1)) \X (0..(c.kernelShape[1] - 1)) \X (0..(c.kernelShape[2] - 1)) :
      patch = d[1] * c.kernelShape[1] * c.kernelShape[2] + d[2] * c.kernelShape[2] + d[3] }

\* The input coordinate of channel i of the output index, when the claim
\* lets it be sampled; the empty set otherwise.
SampledCoords(c, indices, i) ==
  LET patch == indices[4] * 4 + i
      coords == { <<indices[1], d[1],
                    indices[2] * c.strides[1] - c.pads[1] + d[2] * c.dilations[1],
                    indices[3] * c.strides[2] - c.pads[2] + d[3] * c.dilations[2]>> :
                  d \in PatchDecompositions(c, patch) }
  IN  { x \in coords : 0 <= x[3] /\ x[3] < c.xshape[3] /\ 0 <= x[4] /\ x[4] < c.xshape[4] }

\* C8: channel i of an im2col output texel reads the input only when
\* patch = texel*4 + i is below XC*KH*KW and the coordinate of its unique
\* decomposition (c, kh, kw) lies inside the input; every other channel is
\* exactly 0 and makes no read.
C8_Im2ColZeroPadding ==
  (call.op = "im2col" /\ ret.done) =>
     \A i \in 0..3 :
        LET coords == SampledCoords(call.conv, call.indices, i)
            reads == { r \in ret.value.reads : r.channel = i }
        IN  /\ Cardinality(PatchDecompositions(call.conv, call.indices[4] * 4 + i)) <= 1
            /\ (call.indices[4] * 4 + i < call.conv.xshape[2] * call.conv.kernelShape[1]
                                           * call.conv.kernelShape[2])
                 <=> PatchDecompositions(call.conv, call.indices[4] * 4 + i) # {}
            /\ \A r \in reads : r.x \in coords
            /\ reads # {} => ret.value.v[i + 1] = XValue(call.conv.xshape, (CHOOSE r \in reads : TRUE).x)
            /\ coords = {} => (reads = {} /\ ret.value.v[i + 1] = 0)

\* A texel with a channel read from the input, a channel zeroed by the
\* padding and a channel past the last patch element.
C8_Witness ==
  /\ call.op = "im2col" /\ ret.done
  /\ \E i \in 0..3 : \E r \in ret.value.reads : r.channel = i /\ ret.value.v[i + 1] > 0
  /\ \E i \in 0..3 :
       /\ call.indices[4] * 4 + i < call.conv.xshape[2] * call.conv.kernelShape[1]
                                      * call.conv.kernelShape[2]
       /\ SampledCoords(call.conv, call.indices, i) = {}
       /\ ret.value.v[i + 1] = 0
  /\ \E i \in 0..3 :
       /\ call.indices[4] * 4 + i >= call.conv.xshape[2] * call.conv.kernelShape[1]
                                       * call.conv.kernelShape[2]
       /\ ret.value.v[i + 1] = 0

\* --------------------------------------------- calcSharedDimReadSize
preferredBatchSize == 16

\* calcSharedDimReadSize without the test for a remainder.
CalcSharedDimReadSizeNoRemainderTest(sharedDim) ==
  IF sharedDim < preferredBatchSize THEN sharedDim ELSE preferredBatchSize

CalcSharedDimReadSize(sharedDim) ==
  IF sharedDim < preferredBatchSize \/ sharedDim % preferredBatchSize # 0
  THEN sharedDim
  ELSE preferredBatchSize

\* --------------------------------- dot-product shader (process)
\* Texels of the im2col row and of the kernel row of one output element,
\* by offset from the start of the row.  Every component is positive, also
\* past the end of the row, where the next row's texels lie.
TexelAt(seed, offset) == [ch \in 1..4 |-> ((seed * (offset + 1) + ch) % 3) + 1]

\* dot(vec4, vec4)
Dot4(a, b) == a[1] * b[1] + a[2] * b[2] + a[3] * b[3] + a[4] * b[4]

\* The loop of process: what its iterations i .. n-1 add to sum, the
\* offsets being those of iteration i.  The iterations are summed in halves.
RECURSIVE DotProductLoop(_, _, _, _)
DotProductLoop(i, n, im2colOffset, kernelOffset) ==
  IF i >= n THEN 0
  ELSE IF n - i = 1
  THEN Dot4(TexelAt(tex.im2col, im2colOffset), TexelAt(tex.kernel, kernelOffset))
  ELSE LET mid == (i + n) \div 2
       IN  DotProductLoop(i, mid, im2colOffset, kernelOffset)
             + DotProductLoop(mid, n, im2colOffset + (mid - i), kernelOffset + (mid - i))

\* The texels the loop reads, in order: <<im2col offset, kernel offset>>.
DotProductReads(sharedDimReadSize, im2colOffset, kernelOffset) ==
  [i \in 1..sharedDimReadSize |-> <<im2colOffset + i - 1, kernelOffset + i - 1>>]

\* float process(int indices[]) of the program built with the given
\* sharedDimReadSize and initValue, run with the uniform sharedDimOffset;
\* the offsets are relative to the rows of the output element.
DotProductProcess(sharedDimOffset, sharedDimReadSize, initValue) ==
  LET im2colOffset == sharedDimOffset
      kernelOffset == sharedDimOffset
      sum == IF sharedDimOffset = 0 THEN initValue ELSE 0
  IN  [sum |-> sum + DotProductLoop(0, sharedDimReadSize, im2colOffset, kernelOffset),
       reads |-> DotProductReads(sharedDimReadSize, im2colOffset, kernelOffset)]

\* ----------------------------------------------- collaborators of run
\* glContext.draw(): what the target holds after drawing src over dst.
GlDraw(blend, dst, src) == IF blend THEN src + dst ELSE src

\* inferenceHandler.getTextureData(tensor): is there an entry for it.
GetTextureData(cache, tensor) == tensor \in cache

\* inferenceHandler.setTextureData(tensor, td)
SetTextureData(cache, tensor) == cache \cup {tensor}

\* inferenceHandler.getOrCreate(tensor, layout): the entry of the tensor
\* if there is one, else texture data created for it and stored.
GetOrCreate(cache, tensor) ==
  IF GetTextureData(cache, tensor) THEN cache ELSE SetTextureData(cache, tensor)

\* programManager.build(programInfo)
BuildArtifact(programInfo) == [programInfo |-> programInfo]

\* programManager.run(artifact, runData) with the hooks of runData: preRun,
\* then draw, then postRun; postRun is also run when preRun or draw raised,
\* and the error then propagates out of run; otherwise run goes on to
\* line 29.
DriverNext(step, raised) ==
  CASE step = "preRun"  -> IF raised THEN "postRun" ELSE "draw"
    [] step = "draw"    -> "postRun"
    [] step = "postRun" -> IF raised THEN "idle" ELSE "getTensor"

\* ------------------------------------------------------ WebGLConv.run
MaxRuns == 3
MaxSharedDim == 33

KernelTensors == {"W1", "W2"}

\* A GL call, with the blend state it leaves or draws under.
GlEvent(e, pass, k, blend, reads) ==
  [e |-> e, pass |-> pass, k |-> k, blend |-> blend, reads |-> reads]

\* PoolConvUtil.adjustPadsBasedOnAutoPad for one spatial axis: the pads
\* <<head, tail>> the axis has afterwards.  NOTSET keeps the explicit pads,
\* VALID pads nothing, SAME_UPPER and SAME_LOWER pad so that the output
\* extent is the input extent divided by the stride, rounded up, with the
\* odd unit of padding at the end (UPPER) or at the beginning (LOWER).
AdjustPadAxis(inSize, stride, kernel, head, tail, autoPad) ==
  CASE autoPad = "NOTSET" -> <<head, tail>>
    [] autoPad = "VALID"  -> <<0, 0>>
    [] OTHER ->
         LET targetSize == CeilDiv(inSize, stride)
             needed == (targetSize - 1) * stride + kernel - inSize
             padNeeded == IF needed > 0 THEN needed ELSE 0
             padHead == IF autoPad = "SAME_LOWER" THEN (padNeeded + 1) \div 2
                        ELSE padNeeded \div 2
         IN  <<padHead, padNeeded - padHead>>

\* PoolConvUtil.adjustPadsBasedOnAutoPad(inputDims, strides, kernelShape,
\* pads, autoPad): pads as the call leaves it.
AdjustPadsBasedOnAutoPad(inputDims, strides, kernelShape, pads, autoPad) ==
  LET rank == Len(inputDims) - 2
      axis(d) == AdjustPadAxis(inputDims[d + 2], strides[d], kernelShape[d],
                               pads[d], pads[d + rank], autoPad)
  IN  [i \in 1..(2 * rank) |-> IF i <= rank THEN axis(i)[1] ELSE axis(i - rank)[2]]

\* createProgramInfos, lines 35-40: this.kernelShape after the inference
\* from the dims of the kernel tensor.
InferKernelShape(c) ==
  IF Len(c.kernelShape) = 0
  THEN [c EXCEPT !.kernelShape = SubSeq(c.kshape, 3, Len(c.kshape))]
  ELSE c

\* createProgramInfos, lines 35-41: the attributes of the operator once
\* kernelShape is inferred and pads is adjusted in place.
AdjustAttributes(c) ==
  LET inferred == InferKernelShape(c)
  IN  [inferred EXCEPT !.pads = AdjustPadsBasedOnAutoPad(inferred.xshape, inferred.strides,
                                                        inferred.kernelShape, inferred.pads,
                                                        inferred.autoPad)]

\* createProgramInfos: the im2col and the dot-product program infos, from
\* the attributes as lines 35-41 leave them.
CreateProgramInfos(c, inputs) ==
  LET attrs == AdjustAttributes(c)
      outputShape == CalcOutputShape(attrs.xshape, attrs.kshape, attrs.dilations,
                                     attrs.pads, attrs.strides)
      im2colDims == CalcIm2ColDims(attrs.xshape, attrs.kshape, outputShape, 4)
      sharedDim == im2colDims[4]
      sharedDimReadSize == CalcSharedDimReadSize(sharedDim)
  IN  << [name |-> "im2col", initValue |-> "none", sharedDim |-> 0, sharedDimReadSize |-> 0,
          outputShape |-> im2colDims],
         [name |-> "dotProduct",
          initValue |-> IF inputs.b = "none" THEN "0.0" ELSE "_B(b)",
          sharedDim |-> sharedDim,
          sharedDimReadSize |-> sharedDimReadSize,
          outputShape |-> outputShape] >>

Raise ==
  /\ pc' = "idle"
  /\ outcome' = "raised"
  /\ pending' = FALSE

\* run is entered (lines 16-19).
RunBegin ==
  /\ pc = "idle"
  /\ runNo < MaxRuns
  /\ \E k \in KernelTensors : \E b \in conv.biasTensors :
       /\ runInputs' = [x |-> "X", k |-> k, b |-> b]
       /\ kernelLog' = Append(kernelLog, k)
  /\ runNo' = runNo + 1
  /\ glLog' = <<>>
  /\ outcome' = "running"
  /\ loc' = NoLocals
  /\ IF ~artifacts.defined
     THEN /\ artifacts' = [defined |-> TRUE, list |-> <<>>]
          /\ pc' = "createProgramInfos"
     ELSE /\ artifacts' = artifacts
          /\ pc' = "createRunDatas"
  /\ UNCHANGED pureVars
  /\ UNCHANGED <<conv, textureCache, gl, target, tex, buildLog, prepLog, uploadLog, setLog,
                 pending, foreign, getOrCreated>>

\* line 20, createProgramInfos returns: this.kernelShape and this.pads are
\* written (lines 35-41) and the two program infos are returned.
CreateProgramInfosOk ==
  /\ pc = "createProgramInfos"
  /\ conv' = AdjustAttributes(conv)
  /\ loc' = [programInfos |-> CreateProgramInfos(conv, runInputs), i |-> 0, k |-> 0]
  /\ pc' = "build"
  /\ UNCHANGED pureVars
  /\ UNCHANGED <<runNo, runInputs, kernelLog, artifacts, textureCache, gl, target, tex, glLog,
                 buildLog, prepLog, uploadLog, setLog, pending, outcome, foreign, getOrCreated>>

\* line 20, createProgramInfos raises: before line 35, in the checks of
\* adjustPadsBasedOnAutoPad (line 41, kernelShape already inferred), or
\* after line 41.
CreateProgramInfosRaise ==
  /\ pc = "createProgramInfos"
  /\ conv' \in {conv, InferKernelShape(conv), AdjustAttributes(conv)}
  /\ Raise
  /\ UNCHANGED pureVars
  /\ UNCHANGED <<runNo, runInputs, kernelLog, artifacts, loc, textureCache, gl, target, tex,
                 glLog, buildLog, prepLog, uploadLog, setLog, foreign, getOrCreated>>

\* lines 21-24, one iteration in which build returns.
BuildOk ==
  /\ pc = "build"
  /\ loc.i < Len(loc.programInfos)
  /\ buildLog' = Append(buildLog, [run |-> runNo, program |-> loc.programInfos[loc.i + 1].name])
  /\ artifacts' = [artifacts EXCEPT
                     !.list = Append(@, BuildArtifact(loc.programInfos[loc.i + 1]))]
  /\ loc' = [loc EXCEPT !.i = @ + 1]
  /\ pc' = IF loc.i + 1 < Len(loc.programInfos) THEN "build" ELSE "createRunDatas"
  /\ UNCHANGED pureVars
  /\ UNCHANGED <<runNo, conv, runInputs, kernelLog, textureCache, gl, target, tex, glLog, prepLog,
                 uploadLog, setLog, pending, outcome, foreign, getOrCreated>>

\* lines 21-24, an iteration in which build raises.
BuildRaise ==
  /\ pc = "build"
  /\ loc.i < Len(loc.programInfos)
  /\ buildLog' = Append(buildLog, [run |-> runNo, program |-> loc.programInfos[loc.i + 1].name])
  /\ Raise
  /\ UNCHANGED pureVars
  /\ UNCHANGED <<runNo, conv, runInputs, kernelLog, artifacts, loc, textureCache, gl, target, tex,
                 glLog, prepLog, uploadLog, setLog, foreign, getOrCreated>>

\* createRunDatas with n program infos: the line at which it stops when no
\* call of the handler raises. programInfos[1] is dereferenced at lines 61
\* and 73 and programInfos[0] at line 66; 102 stands for the return.
StopLine(n, found) ==
  IF ~found /\ n < 2 THEN 61
  ELSE IF n = 0 THEN 66
  ELSE IF n = 1 THEN 73
  ELSE 102

\* createRunDatas, lines 64-73: the handler's cache when the method, past
\* the kernel step with the given cache, stops at the given line:
\* getOrCreate caches inputs[0] (line 65) and the bias (line 71).
CacheAtLine(cache, inputs, line) ==
  LET withX == IF line > 65 THEN GetOrCreate(cache, inputs.x) ELSE cache
  IN  IF line > 71 /\ inputs.b # "none" THEN GetOrCreate(withX, inputs.b) ELSE withX

\* createRunDatas that never stores the kernel's texture data.
CreateRunDatasWithoutSet ==
  /\ pc = "createRunDatas"
  /\ LET n == Len(artifacts.list)
         k == runInputs.k
         found == GetTextureData(textureCache, k)
         uploads == ~found /\ n >= 2
         kernelCache == textureCache
         stop == StopLine(n, found)
     IN  /\ prepLog' = IF found THEN prepLog
                       ELSE Append(prepLog, [run |-> runNo, tensor |-> k])
         /\ uploadLog' = IF uploads THEN Append(uploadLog, [run |-> runNo, tensor |-> k])
                         ELSE uploadLog
         /\ setLog' = setLog
         /\ textureCache' = CacheAtLine(kernelCache, runInputs, stop)
         /\ getOrCreated' = getOrCreated \cup (textureCache' \ kernelCache)
         /\ IF stop = 102
            THEN /\ pc' = "pass1"
                 /\ target' = 0
                 /\ UNCHANGED <<outcome, pending>>
            ELSE /\ Raise
                 /\ UNCHANGED target
  /\ UNCHANGED pureVars
  /\ UNCHANGED <<runNo, conv, runInputs, kernelLog, artifacts, loc, gl, tex, glLog, buildLog,
                 foreign>>

\* line 26 and createRunDatas (lines 52-102) when no call of the handler
\* raises: it returns, or a missing program info stops it (StopLine).
CreateRunDatas ==
  /\ pc = "createRunDatas"
  /\ LET n == Len(artifacts.list)
         k == runInputs.k
         found == GetTextureData(textureCache, k)
         uploads == ~found /\ n >= 2
         kernelCache == IF uploads THEN SetTextureData(textureCache, k) ELSE textureCache
         stop == StopLine(n, found)
     IN  /\ prepLog' = IF found THEN prepLog
                       ELSE Append(prepLog, [run |-> runNo, tensor |-> k])
         /\ uploadLog' = IF uploads THEN Append(uploadLog, [run |-> runNo, tensor |-> k])
                         ELSE uploadLog
         /\ setLog' = IF uploads THEN Append(setLog, [run |-> runNo, tensor |-> k])
                      ELSE setLog
         /\ textureCache' = CacheAtLine(kernelCache, runInputs, stop)
         /\ getOrCreated' = getOrCreated \cup (textureCache' \ kernelCache)
         /\ IF stop = 102
            THEN /\ pc' = "pass1"
                 /\ target' = 0
                 /\ UNCHANGED <<outcome, pending>>
            ELSE /\ Raise
                 /\ UNCHANGED target
  /\ UNCHANGED pureVars
  /\ UNCHANGED <<runNo, conv, runInputs, kernelLog, artifacts, loc, gl, tex, glLog, buildLog,
                 foreign>>

\* createRunDatas when createTextureDataFromLayout (line 60) raises: the
\* kernel was repacked (line 58) and is neither uploaded nor cached.
CreateRunDatasUploadRaise ==
  /\ pc = "createRunDatas"
  /\ Len(artifacts.list) >= 2
  /\ ~GetTextureData(textureCache, runInputs.k)
  /\ prepLog' = Append(prepLog, [run |-> runNo, tensor |-> runInputs.k])
  /\ Raise
  /\ UNCHANGED pureVars
  /\ UNCHANGED <<runNo, conv, runInputs, kernelLog, artifacts, loc, textureCache, gl, target,
                 tex, glLog, buildLog, uploadLog, setLog, foreign, getOrCreated>>

\* createRunDatas when setTextureData (line 62) raises: the kernel was
\* repacked and uploaded and is not cached.
CreateRunDatasSetRaise ==
  /\ pc = "createRunDatas"
  /\ Len(artifacts.list) >= 2
  /\ ~GetTextureData(textureCache, runInputs.k)
  /\ prepLog' = Append(prepLog, [run |-> runNo, tensor |-> runInputs.k])
  /\ uploadLog' = Append(uploadLog, [run |-> runNo, tensor |-> runInputs.k])
  /\ Raise
  /\ UNCHANGED pureVars
  /\ UNCHANGED <<runNo, conv, runInputs, kernelLog, artifacts, loc, textureCache, gl, target,
                 tex, glLog, buildLog, setLog, foreign, getOrCreated>>

\* createRunDatas when a call of the handler after the kernel step raises:
\* getOrCreate at line 65 or 71, createTextureDataFromLayout at line 66
\* or 73. The kernel step (lines 55-62) and the calls before that line
\* have taken effect.
CreateRunDatasRaise ==
  /\ pc = "createRunDatas"
  /\ LET n == Len(artifacts.list)
         k == runInputs.k
         found == GetTextureData(textureCache, k)
         uploads == ~found /\ n >= 2
         kernelCache == IF uploads THEN SetTextureData(textureCache, k) ELSE textureCache
     IN  /\ \E line \in {65, 66, 71, 73} :
              /\ line < StopLine(n, found)
              /\ line = 71 => runInputs.b # "none"
              /\ textureCache' = CacheAtLine(kernelCache, runInputs, line)
         /\ getOrCreated' = getOrCreated \cup (textureCache' \ kernelCache)
         /\ prepLog' = IF found THEN prepLog
                       ELSE Append(prepLog, [run |-> runNo, tensor |-> k])
         /\ uploadLog' = IF uploads THEN Append(uploadLog, [run |-> runNo, tensor |-> k])
                         ELSE uploadLog
         /\ setLog' = IF uploads THEN Append(setLog, [run |-> runNo, tensor |-> k])
                      ELSE setLog
  /\ Raise
  /\ UNCHANGED pureVars
  /\ UNCHANGED <<runNo, conv, runInputs, kernelLog, artifacts, loc, gl, target, tex, glLog,
                 buildLog, foreign>>

\* line 27: the im2col pass, one plain draw.
Pass1 ==
  /\ pc = "pass1"
  /\ glLog' = Append(glLog, GlEvent("draw", 1, 0, gl.blend, <<>>))
  /\ pc' = "preRun"
  /\ UNCHANGED pureVars
  /\ UNCHANGED <<runNo, conv, runInputs, kernelLog, artifacts, loc, textureCache, gl, target, tex,
                 buildLog, prepLog, uploadLog, setLog, pending, outcome, foreign, getOrCreated>>

\* line 27: programManager.run raises in the im2col pass, before or after
\* its draw.
Pass1Raise ==
  /\ pc = "pass1"
  /\ glLog' \in {glLog, Append(glLog, GlEvent("draw", 1, 0, gl.blend, <<>>))}
  /\ Raise
  /\ UNCHANGED pureVars
  /\ UNCHANGED <<runNo, conv, runInputs, kernelLog, artifacts, loc, textureCache, gl, target, tex,
                 buildLog, prepLog, uploadLog, setLog, foreign, getOrCreated>>

\* line 28, preRun (lines 78-84) when checkError finds no error.
PreRunOk ==
  /\ pc = "preRun"
  /\ gl' = [gl EXCEPT !.blend = TRUE]
  /\ glLog' = Append(glLog, GlEvent("enable", 2, 0, TRUE, <<>>))
  /\ loc' = [loc EXCEPT !.k = 0]
  /\ pc' = DriverNext("preRun", FALSE)
  /\ UNCHANGED pureVars
  /\ UNCHANGED <<runNo, conv, runInputs, kernelLog, artifacts, textureCache, target, tex, buildLog,
                 prepLog, uploadLog, setLog, pending, outcome, foreign, getOrCreated>>

\* preRun when checkError raises.
PreRunRaise ==
  /\ pc = "preRun"
  /\ gl' = [gl EXCEPT !.blend = TRUE]
  /\ glLog' = Append(glLog, GlEvent("enable", 2, 0, TRUE, <<>>))
  /\ pending' = TRUE
  /\ pc' = DriverNext("preRun", TRUE)
  /\ UNCHANGED pureVars
  /\ UNCHANGED <<runNo, conv, runInputs, kernelLog, artifacts, loc, textureCache, target, tex,
                 buildLog, prepLog, uploadLog, setLog, outcome, foreign, getOrCreated>>

\* What _B(b) gives the shader: the bias texture's value when the call
\* passes a bias; when the program samples B and the call passes none, the
\* sampler is unbound and yields 0 or what an earlier call left bound.
BiasValues(initValue, inputs, biasTexture) ==
  IF initValue # "_B(b)" THEN {0}
  ELSE IF inputs.b # "none" THEN {biasTexture}
  ELSE {0, biasTexture}

\* The loop iteration drawing before it sets the uniform.
DrawChunkBeforeUniform ==
  /\ pc = "draw"
  /\ \E bias \in BiasValues(artifacts.list[2].programInfo.initValue, runInputs, tex.bias) :
     LET params == artifacts.list[2].programInfo
         drawn == DotProductProcess(gl.sharedDimOffset, params.sharedDimReadSize, bias)
     IN  /\ loc.k < params.sharedDim
         /\ target' = GlDraw(gl.blend, target, drawn.sum)
         /\ gl' = [gl EXCEPT !.sharedDimOffset = loc.k]
         /\ glLog' = glLog \o << GlEvent("draw", 2, gl.sharedDimOffset, gl.blend, drawn.reads),
                                 GlEvent("uniform1i", 2, loc.k, gl.blend, <<>>) >>
         /\ loc' = [loc EXCEPT !.k = @ + params.sharedDimReadSize]
  /\ pc' = "draw"
  /\ UNCHANGED pureVars
  /\ UNCHANGED <<runNo, conv, runInputs, kernelLog, artifacts, textureCache, tex, buildLog,
                 prepLog, uploadLog, setLog, pending, outcome, foreign, getOrCreated>>

\* draw (lines 89-99): one iteration of the loop, the draw call returning.
DrawChunk ==
  /\ pc = "draw"
  /\ \E bias \in BiasValues(artifacts.list[2].programInfo.initValue, runInputs, tex.bias) :
     LET params == artifacts.list[2].programInfo
         drawn == DotProductProcess(gl'.sharedDimOffset, params.sharedDimReadSize, bias)
     IN  /\ loc.k < params.sharedDim
         /\ gl' = [gl EXCEPT !.sharedDimOffset = loc.k]
         /\ target' = GlDraw(gl'.blend, target, drawn.sum)
         /\ glLog' = glLog \o << GlEvent("uniform1i", 2, loc.k, gl.blend, <<>>),
                                 GlEvent("draw", 2, gl'.sharedDimOffset, gl'.blend, drawn.reads) >>
         /\ loc' = [loc EXCEPT !.k = @ + params.sharedDimReadSize]
  /\ pc' = "draw"
  /\ UNCHANGED pureVars
  /\ UNCHANGED <<runNo, conv, runInputs, kernelLog, artifacts, textureCache, tex, buildLog, prepLog,
                 uploadLog, setLog, pending, outcome, foreign, getOrCreated>>

\* draw: an iteration in which the draw call raises.
DrawRaise ==
  /\ pc = "draw"
  /\ loc.k < artifacts.list[2].programInfo.sharedDim
  /\ gl' = [gl EXCEPT !.sharedDimOffset = loc.k]
  /\ glLog' = Append(glLog, GlEvent("uniform1i", 2, loc.k, gl.blend, <<>>))
  /\ pending' = TRUE
  /\ pc' = DriverNext("draw", TRUE)
  /\ UNCHANGED pureVars
  /\ UNCHANGED <<runNo, conv, runInputs, kernelLog, artifacts, loc, textureCache, target, tex,
                 buildLog, prepLog, uploadLog, setLog, outcome, foreign, getOrCreated>>

\* draw: the loop ends.
DrawEnd ==
  /\ pc = "draw"
  /\ loc.k >= artifacts.list[2].programInfo.sharedDim
  /\ pc' = DriverNext("draw", FALSE)
  /\ UNCHANGED pureVars
  /\ UNCHANGED <<runNo, conv, runInputs, kernelLog, artifacts, loc, textureCache, gl, target, tex,
                 glLog, buildLog, prepLog, uploadLog, setLog, pending, outcome, foreign, getOrCreated>>

\* postRun (lines 85-88); then run returns (line 29) or the pending error
\* propagates.
PostRun ==
  /\ pc = "postRun"
  /\ gl' = [gl EXCEPT !.blend = FALSE]
  /\ glLog' = Append(glLog, GlEvent("disable", 2, 0, FALSE, <<>>))
  /\ pc' = DriverNext("postRun", pending)
  /\ outcome' = IF pending THEN "raised" ELSE outcome
  /\ pending' = FALSE
  /\ UNCHANGED pureVars
  /\ UNCHANGED <<runNo, conv, runInputs, kernelLog, artifacts, loc, textureCache, target, tex,
                 buildLog, prepLog, uploadLog, setLog, foreign, getOrCreated>>

\* line 29: getTensor returns and run returns the output tensor.
GetTensorOk ==
  /\ pc = "getTensor"
  /\ pc' = "idle"
  /\ outcome' = "returned"
  /\ UNCHANGED pureVars
  /\ UNCHANGED <<runNo, conv, runInputs, kernelLog, artifacts, loc, textureCache, gl, target, tex,
                 glLog, buildLog, prepLog, uploadLog, setLog, pending, foreign, getOrCreated>>

\* line 29: getTensor raises.
GetTensorRaise ==
  /\ pc = "getTensor"
  /\ Raise
  /\ UNCHANGED pureVars
  /\ UNCHANGED <<runNo, conv, runInputs, kernelLog, artifacts, loc, textureCache, gl, target, tex,
                 glLog, buildLog, prepLog, uploadLog, setLog, foreign, getOrCreated>>

\* Between two calls of run another operator draws on the same GL context.
OtherOperatorDraw ==
  /\ pc = "idle"
  /\ foreign' = IF gl.blend THEN "blend" ELSE "noblend"
  /\ UNCHANGED pureVars
  /\ UNCHANGED <<pc, runNo, conv, runInputs, kernelLog, artifacts, loc, textureCache, gl, target, tex,
                 glLog, buildLog, prepLog, uploadLog, setLog, pending, outcome, getOrCreated>>

\* createDotProdRunData, line 222: the handler's cache once getOrCreate
\* has returned for the first count inputs, in the order X, kernel, bias.
CacheAfterInputs(cache, inputs, count) ==
  LET withX == IF count >= 1 THEN GetOrCreate(cache, inputs.x) ELSE cache
      withK == IF count >= 2 THEN GetOrCreate(withX, inputs.k) ELSE withX
  IN  IF count >= 3 /\ inputs.b # "none" THEN GetOrCreate(withK, inputs.b) ELSE withK

\* The inputs a caller between two calls of run can pass.
CallInputs ==
  { [x |-> "X", k |-> k, b |-> b] : k \in KernelTensors, b \in conv.biasTensors }

\* createDotProdRunData (lines 221-251), called between two calls of run,
\* returns: getOrCreate has cached texture data for every input, the
\* kernel among them, in the layout of the program info and without
\* repacking.
CreateDotProdRunData ==
  /\ pc = "idle"
  /\ textureCache' \in { CacheAfterInputs(textureCache, inputs, 3) : inputs \in CallInputs }
  /\ getOrCreated' = getOrCreated \cup (textureCache' \ textureCache)
  /\ UNCHANGED pureVars
  /\ UNCHANGED <<pc, runNo, conv, runInputs, kernelLog, artifacts, loc, gl, target, tex, glLog,
                 buildLog, prepLog, uploadLog, setLog, pending, outcome, foreign>>

\* createDotProdRunData raises: getOrCreate (line 222) for the input after
\* the first count ones, or createTextureDataFromLayout (line 223) after
\* all of them. The error goes to the caller; no call of run is under way.
CreateDotProdRunDataRaise ==
  /\ pc = "idle"
  /\ textureCache' \in { CacheAfterInputs(textureCache, inputs[1], inputs[2]) :
                           inputs \in CallInputs \X (0..3) }
  /\ getOrCreated' = getOrCreated \cup (textureCache' \ textureCache)
  /\ UNCHANGED pureVars
  /\ UNCHANGED <<pc, runNo, conv, runInputs, kernelLog, artifacts, loc, gl, target, tex, glLog,
                 buildLog, prepLog, uploadLog, setLog, pending, outcome, foreign>>

\* The operator instances: shared dimensions 3, 18 and 32.
RunAxis == [s |-> 4, k |-> 2, d |-> 1, pb |-> 0, pe |-> 0, t |-> 1]

RunAxis3 == [s |-> 5, k |-> 3, d |-> 1, pb |-> 1, pe |-> 1, t |-> 2]

\* The instance after initialize, with the tensors it is run with:
\* kernelShape given or left empty, the autoPad mode, and the third
\* input the graph may pass ("none" for a call with two inputs).
ConvInstance(c, kernelShapeGiven, autoPad, biasTensors) ==
  [xshape |-> c.xshape, kshape |-> c.kshape,
   kernelShape |-> IF kernelShapeGiven THEN c.kernelShape ELSE <<>>,
   dilations |-> c.dilations, pads |-> c.pads, strides |-> c.strides,
   autoPad |-> autoPad, biasTensors |-> biasTensors]

\* A call passes no bias or the tensor W2, which another call may pass as
\* the kernel.
RunBiasTensors == {"none", "W2"}

RunInstances ==
  { ConvInstance(ConvConfigOf(1, 3, 2, RunAxis, RunAxis), FALSE, "SAME_LOWER", RunBiasTensors),
    ConvInstance(ConvConfigOf(1, 8, 2, RunAxis3, RunAxis3), TRUE, "VALID", RunBiasTensors),
    ConvInstance(ConvConfigOf(1, 32, 2, RunAxis, RunAxis), TRUE, "NOTSET", RunBiasTensors) }

InitRunWith(instances, texs, caches) ==
  /\ call = NoCall
  /\ ret = NoRet
  /\ pc = "idle"
  /\ runNo = 0
  /\ conv \in instances
  /\ runInputs = NoInputs
  /\ kernelLog = <<>>
  /\ artifacts = [defined |-> FALSE, list |-> <<>>]
  /\ loc = NoLocals
  /\ textureCache \in caches
  /\ gl = [blend |-> FALSE, sharedDimOffset |-> 0]
  /\ target = 0
  /\ tex \in texs
  /\ glLog = <<>>
  /\ buildLog = <<>>
  /\ prepLog = <<>>
  /\ uploadLog = <<>>
  /\ setLog = <<>>
  /\ pending = FALSE
  /\ outcome = "none"
  /\ foreign = "none"
  /\ getOrCreated = {}

RunTexs == { [im2col |-> 1, kernel |-> 2, bias |-> 2] }

\* A handler that is new, or, for the instance of two chunks, one that
\* holds texture data for W2 from an earlier use.
Init ==
  \/ InitRunWith(RunInstances, RunTexs, {{}})
  \/ InitRunWith({ c \in RunInstances : c.xshape[2] = 32 }, RunTexs, {{"W2"}})

Next ==
  \/ RunBegin
  \/ CreateProgramInfosOk
  \/ CreateProgramInfosRaise
  \/ BuildOk
  \/ BuildRaise
  \/ CreateRunDatas
  \/ CreateRunDatasUploadRaise
  \/ CreateRunDatasSetRaise
  \/ CreateRunDatasRaise
  \/ Pass1
  \/ Pass1Raise
  \/ PreRunOk
  \/ PreRunRaise
  \/ DrawChunk
  \/ DrawRaise
  \/ DrawEnd
  \/ PostRun
  \/ GetTensorOk
  \/ GetTensorRaise
  \/ OtherOperatorDraw
  \/ CreateDotProdRunData
  \/ CreateDotProdRunDataRaise

Spec == Init /\ [][Next]_vars

\* Runs in which nothing raises, over every shared dimension up to the
\* bound: sd input channels under a 2x2 kernel give ceil(sd * 2 * 2 / 4) = sd.
DotConvConfigs ==
  { ConvConfigOf(1, sd, 1, RunAxis, RunAxis) : sd \in 1..MaxSharedDim }

\* Every call of an instance passes a bias, or none does.
DotInstances ==
  { ConvInstance(c, g, IF g THEN "NOTSET" ELSE "SAME_UPPER", bt) :
      c \in DotConvConfigs, g \in BOOLEAN, bt \in {{"none"}, {"B"}} }

DotTexs ==
  { [im2col |-> 1, kernel |-> 2, bias |-> 0 - 3],
    [im2col |-> 2, kernel |-> 1, bias |-> 2] }

InitDot == InitRunWith(DotInstances, DotTexs, {{}})

NextDot ==
  \/ RunBegin
  \/ CreateProgramInfosOk
  \/ BuildOk
  \/ CreateRunDatas
  \/ Pass1
  \/ PreRunOk
  \/ DrawChunk
  \/ DrawEnd
  \/ PostRun
  \/ GetTensorOk

SpecDot == InitDot /\ [][NextDot]_vars

\* ------------------------------------------------- claims about run
\* sharedDim of the instance: ceil(XC * KH * KW / 4), by the dims of the
\* input and kernel tensors.
SharedDimOf(c) == CeilDiv(c.xshape[2] * c.kshape[3] * c.kshape[4], 4)

\* r of the claims: 16 for a positive multiple of 16, the whole shared
\* dimension otherwise.
ReadSizeOf(c) ==
  IF SharedDimOf(c) > 0 /\ SharedDimOf(c) % 16 = 0 THEN 16 ELSE SharedDimOf(c)

ChunkOffsets(c) == { k \in 0..(SharedDimOf(c) - 1) : k % ReadSizeOf(c) = 0 }

IsDraw(ev, pass) == ev.e = "draw" /\ ev.pass = pass

Pass2DrawsBefore(p) == { q \in 1..(p - 1) : IsDraw(glLog[q], 2) }

PastBuild == {"createRunDatas", "pass1", "preRun", "draw", "postRun", "getTensor"}

InPasses == {"pass1", "preRun", "draw", "postRun", "getTensor"}

\* ----- C1
\* C1: programManager.build is invoked only during the first run, once per
\* pass; every later run builds nothing and works with the two artifacts
\* stored on the instance.
C1_BuildOnlyInFirstRun ==
  /\ \A j \in 1..Len(buildLog) : buildLog[j].run = 1
  /\ (pc \in PastBuild) =>
       /\ [j \in 1..Len(buildLog) |-> buildLog[j].program] = <<"im2col", "dotProduct">>
       /\ Len(artifacts.list) = 2

\* ----- C2
PrepsOf(t) == { j \in 1..Len(prepLog) : prepLog[j].tensor = t }

UploadsOf(t) == { j \in 1..Len(uploadLog) : uploadLog[j].tensor = t }

SetsOf(t) == { j \in 1..Len(setLog) : setLog[j].tensor = t }

\* The handler held no texture data for t before the first run.
InitiallyUncached(t) ==
  t \notin textureCache \/ UploadsOf(t) # {} \/ t \in getOrCreated

\* The case of C2: every run so far passed the kernel tensor t, the handler
\* started without texture data for it, and only run touched its entry.
SameKernelRuns(t) ==
  /\ \A j \in 1..Len(kernelLog) : kernelLog[j] = t
  /\ InitiallyUncached(t)
  /\ t \notin getOrCreated

C3_PassOrderAndBlend ==
  (pc # "off") =>
    /\ \A p \in 1..Len(glLog) :
         /\ p = 1 => (IsDraw(glLog[p], 1) /\ ~glLog[p].blend)
         /\ p = 2 => glLog[p].e = "enable"
         /\ p > 2 => glLog[p].e \in {"uniform1i", "draw", "disable"} /\ glLog[p].pass = 2
         /\ glLog[p].e = "uniform1i" => glLog[p - 1].e \in {"enable", "draw"}
         /\ IsDraw(glLog[p], 2) =>
              /\ glLog[p].blend
              /\ glLog[p - 1].e = "uniform1i"
              /\ glLog[p - 1].k = glLog[p].k
              /\ glLog[p].k = ReadSizeOf(conv) * Cardinality(Pass2DrawsBefore(p))
              /\ glLog[p].k < SharedDimOf(conv)
         /\ glLog[p].e = "disable" => p = Len(glLog)
    /\ outcome = "returned" =>
         /\ ~gl.blend
         /\ glLog[Len(glLog)].e = "disable"
         /\ IsDraw(glLog[Len(glLog) - 1], 2)
         /\ { glLog[q].k : q \in Pass2DrawsBefore(Len(glLog)) } = ChunkOffsets(conv)
    /\ foreign # "blend"

C3_Witness ==
  /\ pc = "idle" /\ outcome = "returned" /\ runNo = 2
  /\ SharedDimOf(conv) = 32
  /\ Len(glLog) = 7
  /\ glLog[4].k = 0 /\ glLog[6].k = 16
  /\ foreign = "noblend"

\* ----- C4
\* C4 (blending released on every exit of pass 2, error exits included) is
\* decided by what programManager.run does when a hook raises. conv.ts
\* gives the hooks only: preRun enables blending and then raises from
\* checkError (lines 78-84), draw raises from glContext.draw (line 97),
\* and neither is wrapped in try/finally; the one gl.disable is in postRun
\* (lines 85-88). DriverNext takes the spec's word that postRun follows a
\* raised hook, so a check of C4 on this model would return that
\* assumption and is not made.

\* ----- C5
\* The dot product over the texels lo .. hi-1 of the two rows.
RECURSIVE UnchunkedDot(_, _)
UnchunkedDot(lo, hi) ==
  IF lo >= hi THEN 0
  ELSE IF hi - lo = 1 THEN Dot4(TexelAt(tex.im2col, lo), TexelAt(tex.kernel, lo))
  ELSE UnchunkedDot(lo, (lo + hi) \div 2) + UnchunkedDot((lo + hi) \div 2, hi)

\* The texels read by the pass-2 draws so far, in order.
RECURSIVE ReadsFrom(_)
ReadsFrom(p) ==
  IF p > Len(glLog) THEN <<>>
  ELSE (IF IsDraw(glLog[p], 2) THEN glLog[p].reads ELSE <<>>) \o ReadsFrom(p + 1)

\* C5: the chunks drawn at offsets 0, r, 2r, ... tile [0, sharedDim) with no
\* gap, no overlap and no read at or beyond sharedDim, the bias is added by
\* the draw at offset 0 only, and the blended result on a zero target is
\* the bias plus the unchunked dot product.
C5_ChunkedDotProduct ==
  (pc \in {"draw", "postRun", "getTensor"} \/ (pc = "idle" /\ outcome = "returned")) =>
    /\ artifacts.list[2].programInfo.sharedDimReadSize = ReadSizeOf(conv)
    /\ artifacts.list[2].programInfo.sharedDim = SharedDimOf(conv)
    /\ LET reads == ReadsFrom(1)
       IN  /\ \A j \in 1..Len(reads) : reads[j] = <<j - 1, j - 1>>
           /\ Len(reads) <= SharedDimOf(conv)
           /\ Len(reads) % ReadSizeOf(conv) = 0
           /\ Len(reads) > 0 =>
                target = (IF runInputs.b # "none" THEN tex.bias ELSE 0) + UnchunkedDot(0, Len(reads))
           /\ pc # "draw" => Len(reads) = SharedDimOf(conv)

C5_Witness ==
  /\ pc = "idle" /\ outcome = "returned"
  /\ SharedDimOf(conv) = 32
  /\ runInputs.b = "B" /\ tex.bias = 2
  /\ Len(ReadsFrom(1)) = 32
  /\ target = 2 + UnchunkedDot(0, 32)

\* ----- C10
\* C10: after any sequence of runs, failed builds included, the artifact
\* list is unset or holds exactly two artifacts; programManager.run is never
\* reached with a missing artifact; a run after a failed build builds again.
C10_ArtifactsAllOrNothing ==
  (pc # "off") =>
    /\ pc = "idle" => (~artifacts.defined \/ Len(artifacts.list) = 2)
    /\ pc \in InPasses => Len(artifacts.list) = 2
    /\ pc = "createRunDatas" => Len(artifacts.list) = 2

\* The part of C10 that the code keeps: no pass is run without its artifact.
C10_NoPassWithoutArtifact ==
  pc \in InPasses => Len(artifacts.list) = 2

====
